---- MODULE Spec2Model ----
(***************************************************************************)
(* Metra-Tracker: the arrival-computation pipeline of the two coordinator  *)
(* variants of the repository.                                             *)
(*                                                                         *)
(*   "protobuf" : src/custom_components/metra_tracker/sensor.py            *)
(*                (API token, GTFS-realtime protobuf feed)                 *)
(*   "json"     : src/sensor.py (basic auth, JSON feed)                    *)
(*                                                                         *)
(* One poll cycle is MetraArrivalsCoordinator._async_update_data.  The     *)
(* handler gives control back to the event loop where it awaits, and each  *)
(* action is the run of the handler between two such points: the request   *)
(* is issued (Tick), the status arrives (Respond), the body arrives and    *)
(* the handler runs to its return (Complete).  Return is the wait for the  *)
(* next scheduled tick.                                                    *)
(*                                                                         *)
(* Encoding of the feed.  Time is in whole seconds since the epoch.  An    *)
(* optional Python value is a sequence of length 0 (None) or 1.  A stop    *)
(* entry's arrival is a record [k, t]:                                     *)
(*   k = "absent"    protobuf: arrival.time == 0;  json: arrival.time.low  *)
(*                   missing, None, "" or 0 (falsy)                        *)
(*   k = "time"      a usable timestamp, t seconds since the epoch         *)
(*   k = "bad"       protobuf: an int64 outside the range of datetime      *)
(*                   (datetime.fromtimestamp raises); json: a value that   *)
(*                   fromisoformat / .replace cannot process.  Such a      *)
(*                   value does not fit the model's integers, so t is not  *)
(*                   a time here but names the value: 0 is an int64 the    *)
(*                   platform's time_t cannot hold (10^18), 1 is           *)
(*                   253433923200, a second of the year 10001              *)
(*   k = "malformed" json only: "arrival" or "time" is not a mapping, so   *)
(*                   the .get chain itself raises                          *)
(* An entity is [kind, route_id, trip_id, stops]; kind = "junk" is a       *)
(* protobuf entity without trip_update, or a json item that is not a       *)
(* mapping.  trip_id is a record [k, s]: k = "str" is the string s (an    *)
(* unset protobuf field reads as ""), k = "missing" is a json trip without *)
(* the key, k = "null" a json trip whose trip_id is null.                  *)
(***************************************************************************)
EXTENDS Integers, Sequences, FiniteSets, TLC

VARIABLES
    variant,        \* which coordinator is installed
    line_id,        \* self._line_id
    start_station,  \* self._start_station
    end_station,    \* self._end_station
    pc,             \* "Setup" (no coordinator yet) | "Idle" | "Fetching" |
                    \* "Reading" | "Published"
    now,            \* the wall clock, read as current_time by the handler
    response,       \* what session.get yields for the request in flight
    data,           \* coordinator.data: the latest published snapshot
    requests,       \* session.get calls issued in the current cycle
    decoded,        \* whether the current cycle read and parsed the body
    raised,         \* whether the current cycle raised to its caller
    previous,       \* history: coordinator.data before the latest publish
    flow,           \* the setup flow (MetraArrivalsConfigFlow) of the entry
    sensors         \* the train numbers of the sensors async_setup_entry added

vars ==
    <<variant, line_id, start_station, end_station, pc, now, response, data,
      requests, decoded, raised, previous, flow, sensors>>

config == <<variant, line_id, start_station, end_station>>

(***************************************************************************)
(* Bounds of the model.                                                    *)
(***************************************************************************)
\* stop_time_update entries of the one unrestricted trip of SpecMatch
MaxStops == 3
\* trips in a feed of SpecRank
MaxTrips == 4
\* trips in a feed of Spec
MaxFeed == 2
\* scheduled ticks of Spec, after the first refresh
MaxTicks == 2
\* the wall clock at construction: 2024-03-10 01:45 in Chicago, a quarter of
\* an hour before daylight time starts
Epoch0 == 1710056700

(***************************************************************************)
(* Program constants.                                                      *)
(***************************************************************************)
DEFAULT_SCAN_INTERVAL == 30

Variants == {"protobuf", "json"}

None == <<>>

Some(x) == <<x>>

IsNone(o) == Len(o) = 0

(***************************************************************************)
(* Error messages.                                                         *)
(***************************************************************************)
\* str(asyncio.TimeoutError()) is the empty string
TimeoutMsg == ""

ConnectMsg == "Cannot connect to host"

\* str() of the DecodeError of FeedMessage.ParseFromString; the text depends
\* on the protobuf implementation that is installed
ProtobufDecodeMsgs ==
    { "Error parsing message",
      "Error parsing message with type 'transit_realtime.FeedMessage'" }

\* str() of the JSONDecodeError of response.json() on a body that is no JSON
NotJsonMsg == "Expecting value: line 1 column 1 (char 0)"

\* str() of the TypeError of len(data) on a JSON body that has no length
LenMsg(type) == "object of type '" \o type \o "' has no len()"

\* what reading a body that cannot be decoded raises, per coordinator
DecodeMsgs(v) ==
    IF v = "protobuf"
        THEN ProtobufDecodeMsgs
        ELSE {NotJsonMsg, LenMsg("NoneType"), LenMsg("int")}

\* str() of what datetime.fromtimestamp raises on an arrival of kind "bad":
\* OSError for a value beyond time_t, ValueError for a year beyond 9999
OutOfRangeMsg(arrival) ==
    IF arrival.t = 0
        THEN "[Errno 75] Value too large for defined data type"
        ELSE "year 10001 is out of range"

\* one message for both coordinators
StatusError_http(v, status) == "HTTP " \o ToString(status)

\* f"HTTP {response.status}" / f"API returned {response.status}"
StatusError(v, status) ==
    IF v = "protobuf"
        THEN "HTTP " \o ToString(status)
        ELSE "API returned " \o ToString(status)

(***************************************************************************)
(* Stop Matcher: the inner loop over trip_update.stop_time_update.          *)
(***************************************************************************)
\* lower case of the route ids the model uses
Lower(id) == IF id = "UP-W" THEN "up-w" ELSE id

\* a comparison that ignores case
RouteMatches_nocase(route_id) == Lower(route_id) = Lower(line_id)

\* trip.route_id != self._line_id: plain string comparison
RouteMatches(route_id) == route_id = line_id

\* a loop that lets a zero arrival time through as a timestamp
NoArrival_never(arrival) == FALSE

\* stu.arrival.time == 0  /  not arrival_raw
NoArrival(arrival) == arrival.k = "absent"

\* datetime.fromtimestamp(t, tz) / fromisoformat(...).astimezone(tz): the
\* instant, or an exception
ParseRaises(arrival) == arrival.k = "bad"

\* stop.get("arrival", {}).get("time", {}).get("low") on a non-mapping
GetRaises(v, arrival) == v = "json" /\ arrival.k = "malformed"

\* the two assignments at the end of the loop body:
\*   if stop_id == start: start_time = t  elif stop_id == end: end_time = t
\* two independent ifs instead of if / elif
Assign_independent(acc, stop_id, t) ==
    LET a == IF stop_id = start_station
                 THEN [acc EXCEPT !.start_time = Some(t)]
                 ELSE acc
    IN  IF stop_id = end_station THEN [a EXCEPT !.end_time = Some(t)] ELSE a

Assign(acc, stop_id, t) ==
    IF stop_id = start_station
        THEN [acc EXCEPT !.start_time = Some(t)]
        ELSE IF stop_id = end_station
            THEN [acc EXCEPT !.end_time = Some(t)]
            ELSE acc

\* One pass of the loop body on stop entry stu.  acc.exc is the exception
\* that leaves the loop, if any.
StopStep(v, acc, stu) ==
    IF GetRaises(v, stu.arrival)
        THEN [acc EXCEPT !.exc = Some("'str' object has no attribute 'get'")]
        ELSE IF NoArrival(stu.arrival)
            THEN acc
            ELSE IF ParseRaises(stu.arrival)
                THEN IF v = "json"
                    THEN acc
                    ELSE [acc EXCEPT !.exc = Some(OutOfRangeMsg(stu.arrival))]
                ELSE Assign(acc, stu.stop_id, stu.arrival.t)

RECURSIVE StopLoop(_, _, _, _)
StopLoop(v, stops, i, acc) ==
    IF i > Len(stops) \/ ~IsNone(acc.exc)
        THEN acc
        ELSE StopLoop(v, stops, i + 1, StopStep(v, acc, stops[i]))

MatchStops(v, stops) ==
    StopLoop(v, stops, 1, [start_time |-> None, end_time |-> None, exc |-> None])

\* if start_time and end_time
\* a matcher that also wants the start stop before the end stop
BothTimes_ordered(m) ==
    /\ ~IsNone(m.start_time)
    /\ ~IsNone(m.end_time)
    /\ m.start_time[1] <= m.end_time[1]

BothTimes(m) == ~IsNone(m.start_time) /\ ~IsNone(m.end_time)

(***************************************************************************)
(* self._tz = America/Chicago.  The zone is 6 h behind UTC in standard     *)
(* time and 5 h in daylight time.  Daylight time starts and ends on a      *)
(* Sunday at 02:00 local time, by the rules the zone has had since 1970:   *)
(*   1970-1973, 1976-1986   last Sunday of April   - last Sunday of Oct.   *)
(*   1974                   6 January              - last Sunday of Oct.   *)
(*   1975                   23 February            - last Sunday of Oct.   *)
(*   1987-2006              first Sunday of April  - last Sunday of Oct.   *)
(*   2007 and later         second Sunday of March - first Sunday of Nov.  *)
(* Dates are day numbers (days since 1970-01-01), so that nothing below    *)
(* leaves the range of the instants themselves.                            *)
(***************************************************************************)
StandardOffset == -21600

DaylightOffset == -18000

\* the year of the day with number z, proleptic Gregorian calendar
YearOfDay(z) ==
    LET zz  == z + 719468
        era == zz \div 146097
        doe == zz - era * 146097
        yoe == (doe - doe \div 1460 + doe \div 36524 - doe \div 146096) \div 365
        doy == doe - (365 * yoe + yoe \div 4 - yoe \div 100)
        mp  == (5 * doy + 2) \div 153
    IN  yoe + era * 400 + (IF mp < 10 THEN 0 ELSE 1)

\* the number of day d of month m of year y
DayNumber(y, m, d) ==
    LET yy  == IF m <= 2 THEN y - 1 ELSE y
        era == yy \div 400
        yoe == yy - era * 400
        mp  == IF m > 2 THEN m - 3 ELSE m + 9
        doy == (153 * mp + 2) \div 5 + d - 1
    IN  era * 146097 + yoe * 365 + yoe \div 4 - yoe \div 100 + doy - 719468

\* the number of the first Sunday on or after day z (day 0 was a Thursday)
SundayFrom(z) == z + ((7 - ((z + 4) % 7)) % 7)

\* the number of the last Sunday of month m (1..11) of year y
LastSunday(y, m) == SundayFrom(DayNumber(y, m + 1, 1) - 7)

\* the day on which daylight time starts in year y, at 02:00 standard time
DaylightStartDay(y) ==
    IF y >= 2007 THEN SundayFrom(DayNumber(y, 3, 1)) + 7
    ELSE IF y >= 1987 THEN SundayFrom(DayNumber(y, 4, 1))
    ELSE IF y = 1975 THEN DayNumber(y, 2, 23)
    ELSE IF y = 1974 THEN DayNumber(y, 1, 6)
    ELSE LastSunday(y, 4)

\* the day on which daylight time ends in year y, at 02:00 daylight time
DaylightEndDay(y) ==
    IF y >= 2007 THEN SundayFrom(DayNumber(y, 11, 1)) ELSE LastSunday(y, 10)

\* second s of a local clock is at or after 02:00 of day z
FromTwoOn(s, z) ==
    s \div 86400 > z \/ (s \div 86400 = z /\ s % 86400 >= 7200)

\* tz.utcoffset at the instant t
UtcOffset(t) ==
    LET y == YearOfDay((t + StandardOffset) \div 86400)
    IN  IF /\ FromTwoOn(t + StandardOffset, DaylightStartDay(y))
           /\ ~FromTwoOn(t + DaylightOffset, DaylightEndDay(y))
            THEN DaylightOffset
            ELSE StandardOffset

\* the wall clock of the timezone at the instant t: the fields of the aware
\* datetime, as seconds
Wall(t) == t + UtcOffset(t)

\* hour and minute of the wall clock w
HourMinute(w) == <<(w \div 3600) % 24, (w \div 60) % 60>>

\* strftime("%H:%M") in the coordinator's timezone
StrfHM(t) == HourMinute(Wall(t))

\* start_time.date(), as a day number
DateOf(t) == Wall(t) \div 86400

\* (start_time - current_time).total_seconds(): both datetimes carry the
\* same tzinfo object, and Python then subtracts their wall clocks without
\* looking at the offsets
TimeDiff(start_time, current_time) == Wall(start_time) - Wall(current_time)

\* trip.trip_id or "unknown"  /  trip_info.get("trip_id", "unknown"): the
\* `or` replaces every empty id, the default of dict.get only a missing key.
\* The result is a Python value: a string, or None for a json null.
TripIdOf(v, trip_id) ==
    IF v = "protobuf"
        THEN IF trip_id.k = "str" /\ trip_id.s # ""
                 THEN Some(trip_id.s)
                 ELSE Some("unknown")
        ELSE IF trip_id.k = "missing"
                 THEN Some("unknown")
                 ELSE IF trip_id.k = "null" THEN None ELSE Some(trip_id.s)

\* the dict appended to trains
TrainRecord(v, entity, m, current_time) ==
    LET start == Wall(m.start_time[1])
    IN  [ start_time |-> HourMinute(start),
          end_time   |-> StrfHM(m.end_time[1]),
          start_full |-> m.start_time[1],
          end_full   |-> m.end_time[1],
          trip_id    |-> TripIdOf(v, entity.trip_id),
          time_diff  |-> start - Wall(current_time),
          date       |-> start \div 86400 ]

\* One pass of the loop over the feed's entities.  st = [trains, exc].
EntityStep(v, st, entity, current_time) ==
    IF entity.kind = "junk"
        THEN st
        ELSE IF ~RouteMatches(entity.route_id)
            THEN st
            ELSE LET m == MatchStops(v, entity.stops)
                 IN  IF ~IsNone(m.exc)
                        THEN IF v = "json"
                            THEN st
                            ELSE [st EXCEPT !.exc = m.exc]
                        ELSE IF BothTimes(m)
                            THEN [st EXCEPT !.trains =
                                    Append(@, TrainRecord(v, entity, m, current_time))]
                            ELSE st

RECURSIVE EntityLoop(_, _, _, _, _)
EntityLoop(v, entities, i, st, current_time) ==
    IF i > Len(entities) \/ ~IsNone(st.exc)
        THEN st
        ELSE EntityLoop(v, entities, i + 1,
                        EntityStep(v, st, entities[i], current_time), current_time)

MatchFeed(v, entities, current_time) ==
    EntityLoop(v, entities, 1, [trains |-> <<>>, exc |-> None], current_time)

(***************************************************************************)
(* Arrival Ranker: sort, relevance filter, fallback, truncation.           *)
(***************************************************************************)
\* the place list.sort puts x in an already sorted list: after every element
\* whose key is not larger (the sort is stable)
RECURSIVE Insert(_, _)
Insert(sorted, x) ==
    IF sorted = <<>>
        THEN <<x>>
        ELSE IF x.time_diff < Head(sorted).time_diff
            THEN <<x>> \o sorted
            ELSE <<Head(sorted)>> \o Insert(Tail(sorted), x)

\* the list left in feed order
SortByTimeDiff_none(trains) == trains

\* trains.sort(key=lambda x: x["time_diff"])
RECURSIVE SortByTimeDiff(_)
SortByTimeDiff(trains) ==
    IF trains = <<>>
        THEN <<>>
        ELSE Insert(SortByTimeDiff(SubSeq(trains, 1, Len(trains) - 1)),
                    trains[Len(trains)])

\* a filter that keeps the boundary
StillRelevant_ge(t) == t.time_diff >= -300

\* t["time_diff"] > -300
StillRelevant(t) == t.time_diff > -300

\* [t for t in trains if t["time_diff"] > -300]
Filter(trains) == SelectSeq(trains, StillRelevant)

\* no fallback
Fallback_none(upcoming_trains, trains) == upcoming_trains

\* if not upcoming_trains and trains: upcoming_trains = [trains[0]]
Fallback(upcoming_trains, trains) ==
    IF upcoming_trains = <<>> /\ trains # <<>>
        THEN <<trains[1]>>
        ELSE upcoming_trains

\* upcoming_trains[:3]
FirstThree(upcoming_trains) ==
    SubSeq(upcoming_trains, 1, IF Len(upcoming_trains) < 3 THEN Len(upcoming_trains) ELSE 3)

\* upcoming_trains as it stands when the snapshot is built
Upcoming(trains) ==
    LET sorted == SortByTimeDiff(trains)
    IN  Fallback(Filter(sorted), sorted)

\* the length of the truncated list
CountOf_capped(upcoming_trains) ==
    IF Len(upcoming_trains) < 3 THEN Len(upcoming_trains) ELSE 3

\* len(upcoming_trains) in the returned dict
CountOf(upcoming_trains) == Len(upcoming_trains)

METRA_LINES == [l \in {"UP-W"} |-> "Union Pacific West"]

\* METRA_LINES.get(self._line_id, self._line_id)
LineName(id) == IF id \in DOMAIN METRA_LINES THEN METRA_LINES[id] ELSE id

\* entry.data["start_station_name"] / ["end_station_name"], as the setup flow
\* stores them: the display name of the chosen stop
StationName(id) == "Station " \o id

\* the dict returned on success
SuccessSnapshot(v, trains, current_time) ==
    LET upcoming_trains == Upcoming(trains)
    IN  IF v = "protobuf"
            THEN [ trains      |-> FirstThree(upcoming_trains),
                   count       |-> CountOf(upcoming_trains),
                   last_update |-> current_time,
                   line_name   |-> LineName(line_id),
                   start_station_name |-> StationName(start_station),
                   end_station_name   |-> StationName(end_station) ]
            ELSE [ trains      |-> FirstThree(upcoming_trains),
                   count       |-> CountOf(upcoming_trains),
                   last_update |-> current_time ]

\* an error dict that also carries an empty trains list
ErrorSnapshot_trains(msg) == [error |-> msg, trains |-> <<>>]

\* the dict returned on failure
ErrorSnapshot(msg) == [error |-> msg]

(***************************************************************************)
(* Poll Orchestrator: _async_update_data from the response on.             *)
(* An outcome is [ret, exc, decoded]: the dict returned, the exception     *)
(* raised, and whether the body was read and parsed.                       *)
(***************************************************************************)
Returns(snapshot, dec) == [ret |-> Some(snapshot), exc |-> None, decoded |-> dec]

Raises(msg, dec) == [ret |-> None, exc |-> Some(msg), decoded |-> dec]

\* the body of the try block
TryBody(v, resp, current_time) ==
    IF ~IsNone(resp.exc)
        THEN Raises(resp.exc[1], FALSE)
        ELSE IF resp.status # 200
            THEN Returns(ErrorSnapshot(StatusError(v, resp.status)), FALSE)
            ELSE IF ~IsNone(resp.body.error)
                THEN Raises(resp.body.error[1], resp.body.read)
                ELSE LET st == MatchFeed(v, resp.body.entity, current_time)
                     IN  IF ~IsNone(st.exc)
                            THEN Raises(st.exc[1], TRUE)
                            ELSE Returns(SuccessSnapshot(v, st.trains, current_time), TRUE)

\* a handler that catches transport errors only (except aiohttp.ClientError)
OuterExcept_narrow(out) ==
    IF ~IsNone(out.exc) /\ out.exc[1] = ConnectMsg
        THEN Returns(ErrorSnapshot(out.exc[1]), out.decoded)
        ELSE out

\* except Exception as ex: return {"error": str(ex)}
OuterExcept(out) ==
    IF ~IsNone(out.exc)
        THEN Returns(ErrorSnapshot(out.exc[1]), out.decoded)
        ELSE out

\* coordinator.last_update_success: cleared when the update method raised
last_update_success == ~raised

\* self as the handler finds it: the attributes of the coordinator that
\* change after __init__.  Both are written by the DataUpdateCoordinator
\* when the update method has returned; the attributes __init__ sets are
\* the configuration.
Coordinator == [data |-> data, last_update_success |-> last_update_success]

\* the same attributes of a coordinator that __init__ has just built
FreshCoordinator == [data |-> None, last_update_success |-> TRUE]

\* a handler that answers a failed cycle with the last good snapshot it
\* finds in self.data
UpdateData_cached(self, v, resp, current_time) ==
    LET out == OuterExcept(TryBody(v, resp, current_time))
    IN  IF /\ self.data # None
           /\ "error" \notin DOMAIN self.data
           /\ "error" \in DOMAIN out.ret[1]
            THEN Returns(self.data, out.decoded)
            ELSE out

\* _async_update_data(self): the try block and its except clause.  The
\* handler reads the configuration, the response and the clock; it reads
\* neither self.data nor self.last_update_success.
UpdateData(self, v, resp, current_time) ==
    OuterExcept(TryBody(v, resp, current_time))

(***************************************************************************)
(* The display layer: MetraTrainSensor.  Each property is a function of    *)
(* the sensor's train number, of coordinator.last_update_success and of    *)
(* coordinator.data; state also reads the current date.                    *)
(***************************************************************************)
\* the train numbers async_setup_entry creates sensors for
TrainNumbers == 1..3

\* dict.get(key, default)
Get(dict, key, default) == IF key \in DOMAIN dict THEN dict[key] ELSE default

\* {}
EmptyDict == <<>>

\* a sensor that trusts the scheduler's flag alone
available_stale(lus, snapshot) == lus

\* MetraTrainSensor.available
available(lus, snapshot) == lus /\ "error" \notin DOMAIN snapshot

\* the "HH:MM" text of a formatted time
Pad2(n) == IF n < 10 THEN "0" \o ToString(n) ELSE ToString(n)

HHMM(hm) == Pad2(hm[1]) \o ":" \o Pad2(hm[2])

\* f"{train['start_time']} → {train['end_time']}{date_str}"
TrainText(train, today) ==
    HHMM(train.start_time) \o " → " \o HHMM(train.end_time)
        \o (IF train.date # today THEN " (Tomorrow)" ELSE "")

\* the state text of a sensor without a train
NoTrainText(v) ==
    IF v = "protobuf" THEN "No trains scheduled within 60 min" ELSE "No data"

\* MetraTrainSensor.state
state(v, n, lus, snapshot, today) ==
    IF ~available(lus, snapshot)
        THEN "Unavailable"
        ELSE LET trains == Get(snapshot, "trains", <<>>)
             IN  IF Len(trains) >= n
                     THEN TrainText(trains[n], today)
                     ELSE NoTrainText(v)

\* MetraTrainSensor.extra_state_attributes
extra_state_attributes(v, n, lus, snapshot) ==
    IF ~available(lus, snapshot)
        THEN EmptyDict
        ELSE LET trains == Get(snapshot, "trains", <<>>)
                 last_update == Get(snapshot, "last_update", None)
             IN  IF v = "protobuf"
                     THEN IF Len(trains) >= n
                              THEN [ last_update       |-> last_update,
                                     train_number      |-> n,
                                     departure_time    |-> trains[n].start_time,
                                     arrival_time      |-> trains[n].end_time,
                                     departure_station |-> snapshot.start_station_name,
                                     arrival_station   |-> snapshot.end_station_name,
                                     departure_full    |-> trains[n].start_full,
                                     arrival_full      |-> trains[n].end_full,
                                     trip_id           |-> trains[n].trip_id ]
                              ELSE [ last_update  |-> last_update,
                                     train_number |-> n ]
                     ELSE IF Len(trains) >= n
                              THEN [ start_time   |-> trains[n].start_time,
                                     end_time     |-> trains[n].end_time,
                                     start_full   |-> trains[n].start_full,
                                     end_full     |-> trains[n].end_full,
                                     trip_id      |-> trains[n].trip_id,
                                     train_number |-> n,
                                     last_update  |-> last_update ]
                              ELSE EmptyDict

(***************************************************************************)
(* The environment: what the feed server can answer.                       *)
(***************************************************************************)
Absent == [k |-> "absent", t |-> 0]

Time(t) == [k |-> "time", t |-> t]

Bad == [k |-> "bad", t |-> 0]

BadYear == [k |-> "bad", t |-> 1]

Malformed == [k |-> "malformed", t |-> 0]

Stop(stop_id, arrival) == [stop_id |-> stop_id, arrival |-> arrival]

Id(s) == [k |-> "str", s |-> s]

NoId == [k |-> "missing", s |-> ""]

NullId == [k |-> "null", s |-> ""]

\* the trip ids a feed can carry besides ordinary strings
OddIds(v) == IF v = "protobuf" THEN {Id("")} ELSE {Id(""), NoId, NullId}

Trip(route_id, trip_id, stops) ==
    [kind |-> "trip", route_id |-> route_id, trip_id |-> Id(trip_id), stops |-> stops]

WithTripId(entity, trip_id) == [entity EXCEPT !.trip_id = trip_id]

Junk == [kind |-> "junk", route_id |-> "", trip_id |-> Id(""), stops |-> <<>>]

\* a trip of the configured line that calls at OTC at t and at GENEVA a
\* quarter of an hour later
PlainTrip(trip_id, t) ==
    Trip("UP-W", trip_id, <<Stop("OTC", Time(t)), Stop("GENEVA", Time(t + 900))>>)

\* A body is [error, read, entity]: the exception that reading or decoding
\* it raises, if any; whether it was read when that happened; its entities.
Feed(entities) == [error |-> None, read |-> TRUE, entity |-> entities]

\* a body that arrives and cannot be decoded
Corrupt(msg) == [error |-> Some(msg), read |-> TRUE, entity |-> <<>>]

\* a body whose transfer fails: response.read() / response.json() raises
Unread(msg) == [error |-> Some(msg), read |-> FALSE, entity |-> <<>>]

ExcResponse(msg) == [exc |-> Some(msg), status |-> 0, body |-> Unread(msg)]

HttpResponse(status, body) == [exc |-> None, status |-> status, body |-> body]

SeqsUpTo(S, n) == UNION {[1..k -> S] : k \in 0..n}

\* Spec: transport failures, statuses other than 200, bodies that cannot be
\* read or decoded, and short feeds of three kinds of trip
SmallEntities ==
    { PlainTrip("", Epoch0 + 600),
      PlainTrip("UW35", Epoch0 - 290),
      Trip("UP-W", "UW60", <<Stop("OTC", Time(Epoch0 + 60)),
                             Stop("ELBURN", Bad),
                             Stop("GENEVA", Time(Epoch0 + 960))>>) }

Responses(v) ==
    {ExcResponse(TimeoutMsg), ExcResponse(ConnectMsg)}
    \cup {HttpResponse(s, Feed(<<>>)) : s \in {204, 401, 500}}
    \cup {HttpResponse(200, Unread(TimeoutMsg))}
    \cup {HttpResponse(200, Corrupt(msg)) : msg \in DecodeMsgs(v)}
    \cup {HttpResponse(200, Feed(f)) : f \in SeqsUpTo(SmallEntities, MaxFeed)}

\* SpecMatch: one unrestricted trip, alone or next to a plain trip
StopAlphabet(v) ==
    {Stop("OTC", a) : a \in {Absent, Time(Epoch0 + 600), Time(Epoch0 + 660), Bad}}
    \cup {Stop("GENEVA", a) : a \in {Absent, Time(Epoch0 + 300), Time(Epoch0 + 1500), Bad}}
    \cup {Stop("ELBURN", a) : a \in {Absent, Time(Epoch0 + 600), Bad, BadYear}}
    \cup (IF v = "json" THEN {Stop("ELBURN", Malformed)} ELSE {})

\* the feeds built around entity e
Around(e) ==
    { <<e>>,
      <<PlainTrip("UW47", Epoch0 + 1200), e>>,
      <<e, PlainTrip("UW47", Epoch0 + 1200)>> }

\* SpecRank: plain trips around the relevance boundary
Offsets == {-600, -301, -300, -299, 1200}

\* SpecRank: the clock of the cycle, before daylight time starts, 100 s after
\* (Epoch0 + 900 is the switch), and on 2024-11-03 at 01:50 daylight time, ten
\* minutes before the clocks go back.  From the first clock the trip at +1200
\* lies beyond the switch and its time_diff is 4800; from the second the
\* departed trips lie before it and their time_diff is an hour lower; from the
\* third the trip at +1200 is at 01:10 standard time and its time_diff is
\* -2400.
Clocks == {Epoch0, Epoch0 + 1000, Epoch0 + 20559900}

\* the feed of k plain trips at the offsets d[1..k] from the clock; the first
\* has the trip id `first`
RankFeed(k, d, first, clock) ==
    [i \in 1..k |->
        IF i = 1
            THEN WithTripId(PlainTrip("UW1", clock + d[i]), first)
            ELSE PlainTrip("UW" \o ToString(i), clock + d[i])]

(***************************************************************************)
(* The setup flow: validate_token / validate_auth and the three steps of   *)
(* MetraArrivalsConfigFlow.  flow is a record:                             *)
(*   step     the step whose form is shown: "user", "line_select",         *)
(*            "stop_select"; or "create_entry" / "abort" once it ended     *)
(*   errors   errors["base"] of the form shown, "" when there is none      *)
(*   reason   the reason of an abort, "" otherwise                         *)
(*   probing  where async_step_user is suspended in its probe: "request"   *)
(*            (in session.get), "body" (in response.json()), "" when no    *)
(*            probe is pending                                             *)
(*   probe    the response the last validation probe got, if any           *)
(*   valid    what the last validation probe that ended returned           *)
(*   rejected history: whether a probe of this flow returned False         *)
(*   selected_line_id, entry   optional values                             *)
(* A probe response is [exc, status, content_type, body]; body is "list",  *)
(* "dict" or "scalar" (JSON of that type), "protobuf" (a FeedMessage) or   *)
(* "garbage".  content_type is the text of the Content-Type header as the  *)
(* sequence of its characters (<<>> is the empty text of a response        *)
(* without the header).                                                    *)
(***************************************************************************)
\* "application/"
ApplicationSlash ==
    <<"a", "p", "p", "l", "i", "c", "a", "t", "i", "o", "n", "/">>

\* "json"
Json == <<"j", "s", "o", "n">>

\* "application/json"
JsonType == ApplicationSlash \o Json

UpperCase ==
    <<"A", "B", "C", "D", "E", "F", "G", "H", "I", "J", "K", "L", "M", "N",
      "O", "P", "Q", "R", "S", "T", "U", "V", "W", "X", "Y", "Z">>

LowerCase ==
    <<"a", "b", "c", "d", "e", "f", "g", "h", "i", "j", "k", "l", "m", "n",
      "o", "p", "q", "r", "s", "t", "u", "v", "w", "x", "y", "z">>

Digits ==
    <<"0", "1", "2", "3", "4", "5", "6", "7", "8", "9">>

Range(f) == {f[i] : i \in DOMAIN f}

\* str.lower() of one character
LowerChar(c) ==
    IF c \in Range(UpperCase)
        THEN LowerCase[CHOOSE i \in DOMAIN UpperCase : UpperCase[i] = c]
        ELSE c

\* text.lower()
StrLower(text) == [i \in DOMAIN text |-> LowerChar(text[i])]

\* text.startswith(prefix)
StartsWith(text, prefix) ==
    Len(prefix) <= Len(text) /\ SubSeq(text, 1, Len(prefix)) = prefix

\* sub in text
Contains(text, sub) ==
    \E i \in 0..(Len(text) - Len(sub)) : SubSeq(text, i + 1, i + Len(sub)) = sub

\* the characters of the class [\w.+-] among those of the headers
SubtypeChars ==
    Range(UpperCase) \cup Range(LowerCase) \cup Range(Digits) \cup {"_", ".", "+", "-"}

\* json_re.match(ctype) of aiohttp, json_re being
\* ^application/(?:[\w.+-]+?\+)?json : the text starts with "application/",
\* then either "json" or one or more characters of the class, a "+" and
\* "json"; anything may follow
JsonRe(ctype) ==
    LET n == Len(ApplicationSlash)
        rest == SubSeq(ctype, n + 1, Len(ctype))
    IN  /\ StartsWith(ctype, ApplicationSlash)
        /\ \/ StartsWith(rest, Json)
           \/ \E k \in 1..Len(rest) :
                /\ \A i \in 1..k : rest[i] \in SubtypeChars
                /\ StartsWith(SubSeq(rest, k + 1, Len(rest)), <<"+">> \o Json)

\* "application/json" in content_type: a substring test on the header as it
\* was sent
MentionsJson(content_type) == Contains(content_type, JsonType)

\* what response.json() of aiohttp wants of the header: lower-cased, it
\* matches json_re
TypedJson(content_type) == JsonRe(StrLower(content_type))

\* response.json(): aiohttp refuses a body that is not typed as JSON, and
\* json.loads refuses what is not JSON
JsonRaises(probe) ==
    ~TypedJson(probe.content_type) \/ probe.body \notin {"list", "dict", "scalar"}

\* a probe that forgets the 401 test
validate_auth_no401(probe) ==
    IF ~IsNone(probe.exc)
        THEN FALSE
        ELSE IF JsonRaises(probe) THEN FALSE ELSE probe.body = "list"

\* validate_auth of the basic-auth flow
validate_auth(probe) ==
    IF ~IsNone(probe.exc)
        THEN FALSE
        ELSE IF probe.status = 401
            THEN FALSE
            ELSE IF JsonRaises(probe) THEN FALSE ELSE probe.body = "list"

\* validate_token of the token flow
validate_token(probe) ==
    IF ~IsNone(probe.exc)
        THEN FALSE
        ELSE IF probe.status # 200
            THEN FALSE
            ELSE IF MentionsJson(probe.content_type)
                THEN IF JsonRaises(probe) THEN FALSE ELSE probe.body \in {"dict", "list"}
                ELSE TRUE

Validate(v, probe) == IF v = "protobuf" THEN validate_token(probe) ELSE validate_auth(probe)

\* errors["base"] after a failed probe
InvalidError(v) == IF v = "protobuf" THEN "invalid_token" ELSE "invalid_auth"

\* the stop ids of each line
METRA_STOPS_BY_LINE == [l \in {"UP-W"} |-> {"OTC", "GENEVA", "ELBURN"}]

\* METRA_STOPS_BY_LINE.get(self.selected_line_id, {})
LineStops(id) ==
    IF id \in DOMAIN METRA_STOPS_BY_LINE THEN METRA_STOPS_BY_LINE[id] ELSE {}

Probe(exc, status, content_type, body) ==
    [exc |-> exc, status |-> status, content_type |-> content_type, body |-> body]

\* "application/x-protobuf"
ProtobufType == ApplicationSlash \o <<"x", "-", "p", "r", "o", "t", "o", "b", "u", "f">>

\* "application/json; charset=utf-8"
JsonCharset ==
    JsonType \o <<";", " ", "c", "h", "a", "r", "s", "e", "t", "=", "u", "t", "f", "-", "8">>

\* "text/plain; alt=application/json"
TextAltJson ==
    <<"t", "e", "x", "t", "/", "p", "l", "a", "i", "n", ";", " ", "a", "l", "t", "=">>
        \o JsonType

\* "Application/JSON"
MixedCaseJson ==
    <<"A", "p", "p", "l", "i", "c", "a", "t", "i", "o", "n", "/", "J", "S",
      "O", "N">>

\* "application/vnd.api+json"
VndApiJson == ApplicationSlash \o <<"v", "n", "d", ".", "a", "p", "i", "+", "j", "s", "o", "n">>

\* "application/x+json; alt=application/json"
XJsonAltJson ==
    ApplicationSlash \o <<"x", "+", "j", "s", "o", "n", ";", " ", "a", "l", "t", "=">> \o JsonType

\* the Content-Type headers of the probe responses: none, JSON without and
\* with a parameter, protobuf, a header that names JSON in a parameter only,
\* JSON in mixed case, a +json media type, and a +json media type that also
\* names JSON in a parameter
ContentTypes ==
    { <<>>, JsonType, JsonCharset, ProtobufType, TextAltJson, MixedCaseJson,
      VndApiJson, XJsonAltJson }

\* what the feed server can answer to the probe
Probes ==
    {Probe(Some(ConnectMsg), 0, <<>>, "garbage")}
    \cup {Probe(None, st, ct, b) :
            st \in {200, 201, 401, 500},
            ct \in ContentTypes,
            b \in {"list", "dict", "scalar", "protobuf", "garbage"}}

\* the flow as async_step_user shows its first form
FlowStart ==
    [ step |-> "user", errors |-> "", reason |-> "", probing |-> "",
      probe |-> None,
      valid |-> FALSE, rejected |-> FALSE,
      selected_line_id |-> None, entry |-> None ]

\* name_to_id[name]
NameToId(line, name) == CHOOSE k \in LineStops(line) : StationName(k) = name

\* data of async_create_entry, from the two names the user picked
EntryData(line, start_name, end_name) ==
    [ line |-> line,
      start_station |-> NameToId(line, start_name),
      end_station |-> NameToId(line, end_name),
      start_station_name |-> start_name,
      end_station_name |-> end_name ]

\* the feed server's answer to a probe with good credentials
GoodProbe(v) ==
    IF v = "protobuf"
        THEN Probe(None, 200, ProtobufType, "protobuf")
        ELSE Probe(None, 200, JsonType, "list")

\* a flow that shows the stop form of the line, its first probe judged valid
FlowAtStopSelect(v, line) ==
    [ FlowStart EXCEPT !.step = "stop_select", !.probe = Some(GoodProbe(v)),
                       !.valid = TRUE, !.selected_line_id = Some(line) ]

\* that flow once it has created the entry for (line, start_id, end_id)
FlowCreated(v, line, start_id, end_id) ==
    [ FlowAtStopSelect(v, line) EXCEPT
        !.step = "create_entry",
        !.entry = Some(EntryData(line, StationName(start_id), StationName(end_id))) ]

(***************************************************************************)
(* Actions.                                                                *)
(***************************************************************************)
ConfigInit ==
    /\ variant \in Variants
    /\ line_id = "UP-W"
    /\ start_station = "OTC"
    /\ end_station = "GENEVA"
    /\ flow = FlowCreated(variant, line_id, start_station, end_station)

\* the setup flow has created the entry; Home Assistant has not yet called
\* async_setup_entry, so there is no coordinator
Init ==
    /\ variant \in Variants
    /\ line_id = ""
    /\ start_station = ""
    /\ end_station = ""
    /\ flow = FlowCreated(variant, "UP-W", "OTC", "GENEVA")
    /\ pc = "Setup"
    /\ now = Epoch0
    /\ response = ExcResponse("")
    /\ data = None
    /\ requests = 0
    /\ decoded = FALSE
    /\ raised = FALSE
    /\ previous = None
    /\ sensors = {}

\* async_setup_entry up to its first await: MetraArrivalsCoordinator.__init__
\* reads the entry, and async_config_entry_first_refresh calls
\* _async_update_data, which issues the request and is suspended in
\* session.get
SetupEntry ==
    /\ pc = "Setup"
    /\ flow.step = "create_entry"
    /\ variant' = variant
    /\ line_id' = flow.entry[1].line
    /\ start_station' = flow.entry[1].start_station
    /\ end_station' = flow.entry[1].end_station
    /\ pc' = "Fetching"
    /\ response' \in Responses(variant)
    /\ requests' = 1
    /\ decoded' = FALSE
    /\ raised' = FALSE
    /\ UNCHANGED <<now, data, previous, flow, sensors>>

\* a scheduler with a circuit breaker: no tick after an error snapshot
Tick_breaker ==
    /\ pc = "Idle"
    /\ ~(data # None /\ "error" \in DOMAIN data)
    /\ now <= Epoch0 + MaxTicks * DEFAULT_SCAN_INTERVAL
    /\ pc' = "Fetching"
    /\ response' \in Responses(variant)
    /\ requests' = 1
    /\ decoded' = FALSE
    /\ raised' = FALSE
    /\ UNCHANGED <<config, now, data, previous, flow, sensors>>

\* the scheduler calls _async_update_data, which issues the request and is
\* suspended in session.get
Tick ==
    /\ pc = "Idle"
    /\ now <= Epoch0 + MaxTicks * DEFAULT_SCAN_INTERVAL
    /\ pc' = "Fetching"
    /\ response' \in Responses(variant)
    /\ requests' = 1
    /\ decoded' = FALSE
    /\ raised' = FALSE
    /\ UNCHANGED <<config, now, data, previous, flow, sensors>>

\* The handler returns and the DataUpdateCoordinator of Home Assistant
\* stores the dict as coordinator.data (an exception would leave data alone
\* and clear last_update_success).  What the handler computes before it
\* returns is local to it, and the last await before the return, the exit
\* of `async with`, changes nothing another callback can read; so the end
\* of the handler and the assignment are one step.  When the cycle is the
\* first refresh, the same step resumes async_setup_entry, which adds the
\* three sensors (a first refresh that raised would end the setup instead).
Publish(out) ==
    /\ data' = IF IsNone(out.ret) THEN data ELSE out.ret[1]
    /\ raised' = ~IsNone(out.exc)
    /\ decoded' = out.decoded
    /\ previous' = data
    /\ sensors' = IF IsNone(out.exc) THEN TrainNumbers ELSE sensors
    /\ pc' = "Published"

\* session.get resumes the handler: with an exception or a status other
\* than 200 the handler returns at once; with status 200 it asks for the
\* body and is suspended again, in response.read() / response.json()
Respond ==
    /\ pc = "Fetching"
    /\ IF ~IsNone(response.exc) \/ response.status # 200
          THEN Publish(UpdateData(Coordinator, variant, response, now))
          ELSE /\ pc' = "Reading"
               /\ UNCHANGED <<data, raised, decoded, previous, sensors>>
    /\ UNCHANGED <<config, now, response, requests, flow>>

\* the body is in, or its transfer failed: the handler reads the clock and
\* runs to its return
Complete ==
    /\ pc = "Reading"
    /\ Publish(UpdateData(Coordinator, variant, response, now))
    /\ UNCHANGED <<config, now, response, requests, flow>>

\* the coordinator waits for the next update_interval
Return ==
    /\ pc = "Published"
    /\ pc' = "Idle"
    /\ now' = now + DEFAULT_SCAN_INTERVAL
    /\ UNCHANGED <<config, response, data, requests, decoded, raised, previous, flow, sensors>>

Next == SetupEntry \/ Tick \/ Respond \/ Complete \/ Return

Spec == Init /\ [][Next]_vars

\* The steps that fairness must not postpone for ever.  The request runs
\* under a timeout (10 s / 15 s) that covers the body, so a handler waiting
\* for the status or for the body is always resumed, and nothing holds back
\* the wait for the next interval.  Respond, Complete and Return have no
\* guard but pc and are the only steps of Next leaving "Fetching",
\* "Reading" and "Published", so under Next this is fairness of the three.
Advance ==
    \/ pc = "Fetching" /\ pc' \in {"Reading", "Published"}
    \/ pc = "Reading" /\ pc' = "Published"
    \/ pc = "Published" /\ pc' = "Idle"

SpecLive == Spec /\ WF_pc(Advance)

\* the first refresh at the instant clock: the request was answered with
\* status 200 and the handler waits for the body, which is the feed f
InFlight(f, clock) ==
    /\ pc = "Reading"
    /\ now = clock
    /\ response = HttpResponse(200, Feed(f))
    /\ data = None
    /\ requests = 1
    /\ decoded = FALSE
    /\ raised = FALSE
    /\ previous = None
    /\ sensors = {}

InitMatch ==
    /\ ConfigInit
    /\ \/ \E f \in Around(Junk) : InFlight(f, Epoch0)
       \/ \E k \in 0..MaxStops : \E s \in [1..k -> StopAlphabet(variant)] :
            \E r \in {"UP-W", "up-w"} : \E f \in Around(Trip(r, "UW21", s)) :
                InFlight(f, Epoch0)

NextMatch == Complete

SpecMatch == InitMatch /\ [][NextMatch]_vars

InitRank ==
    /\ ConfigInit
    /\ \E k \in 0..MaxTrips : \E d \in [1..k -> Offsets] :
          \E first \in {Id("UW1")} \cup OddIds(variant) : \E clock \in Clocks :
              InFlight(RankFeed(k, d, first, clock), clock)

NextRank == Complete

SpecRank == InitRank /\ [][NextRank]_vars

(***************************************************************************)
(* Vocabulary of the properties.                                           *)
(***************************************************************************)
\* the entities of the response of the current cycle
TheFeed == response.body.entity

Published == pc = "Published"

IsSuccess(snapshot) == "trains" \in DOMAIN snapshot

IsError(snapshot) == "error" \in DOMAIN snapshot

PublishedSuccess == Published /\ IsSuccess(data)

\* entity e has a stop entry for stop_id that carries a usable arrival
UsableAt(e, stop_id) ==
    \E i \in DOMAIN e.stops :
        e.stops[i].stop_id = stop_id /\ e.stops[i].arrival.k = "time"

HasBoth(e) == UsableAt(e, start_station) /\ UsableAt(e, end_station)

\* no other entity of the feed shows the trip id of entity i
OnlyId(i) ==
    \A k \in DOMAIN TheFeed :
        k # i => TripIdOf(variant, TheFeed[k].trip_id) # TripIdOf(variant, TheFeed[i].trip_id)

\* the trip id of entity i is on no published train
NotPublished(i) ==
    \A j \in DOMAIN data.trains :
        data.trains[j].trip_id # TripIdOf(variant, TheFeed[i].trip_id)

(***************************************************************************)
(* C1  Both-or-nothing: every published train comes from a trip of the    *)
(* configured line that has a usable arrival (not zero, not absent) at the *)
(* start stop and at the end stop; a trip of the line with a usable        *)
(* arrival at one or neither of the two stops is not in trains.            *)
(***************************************************************************)
C1_BothOrNothing ==
    PublishedSuccess =>
        /\ \A j \in DOMAIN data.trains :
              \E i \in DOMAIN TheFeed :
                  /\ TheFeed[i].kind = "trip"
                  /\ HasBoth(TheFeed[i])
                  /\ data.trains[j].trip_id = TripIdOf(variant, TheFeed[i].trip_id)
        /\ \A i \in DOMAIN TheFeed :
              ( /\ TheFeed[i].kind = "trip"
                /\ TheFeed[i].route_id = line_id
                /\ ~HasBoth(TheFeed[i])
                /\ OnlyId(i) ) => NotPublished(i)

\* a trip of the line with a timestamp at the start stop and a zero arrival
\* at the end stop was polled next to a complete trip; only the latter shows
C1_Witness ==
    /\ PublishedSuccess
    /\ Len(data.trains) = 1
    /\ \E i \in DOMAIN TheFeed :
          /\ TheFeed[i].route_id = line_id
          /\ UsableAt(TheFeed[i], start_station)
          /\ ~UsableAt(TheFeed[i], end_station)
          /\ \E n \in DOMAIN TheFeed[i].stops :
                TheFeed[i].stops[n] = Stop(end_station, Absent)
          /\ NotPublished(i)

(***************************************************************************)
(* C2  Route isolation: a trip whose route_id is not exactly the           *)
(* configured line id (string equality, case included) puts no train in    *)
(* trains, even if it calls at both stops; every published train comes     *)
(* from a trip whose route_id is the line id.                              *)
(***************************************************************************)
C2_RouteIsolation ==
    PublishedSuccess =>
        /\ \A j \in DOMAIN data.trains :
              \E i \in DOMAIN TheFeed :
                  /\ TheFeed[i].kind = "trip"
                  /\ TheFeed[i].route_id = line_id
                  /\ data.trains[j].trip_id = TripIdOf(variant, TheFeed[i].trip_id)
        /\ \A i \in DOMAIN TheFeed :
              ( /\ TheFeed[i].kind = "trip"
                /\ TheFeed[i].route_id # line_id
                /\ OnlyId(i) ) => NotPublished(i)

\* a trip of line "up-w" that calls at both stops was polled for line "UP-W"
C2_Witness ==
    /\ PublishedSuccess
    /\ line_id = "UP-W"
    /\ \E i \in DOMAIN TheFeed :
          /\ TheFeed[i].kind = "trip"
          /\ TheFeed[i].route_id = "up-w"
          /\ HasBoth(TheFeed[i])
          /\ NotPublished(i)

\* the matched trips of the current cycle, in feed order
Matched == MatchFeed(variant, TheFeed, now).trains

\* the positions of the list m of matched trips that pass the relevance
\* filter
PassingOf(m) == {i \in DOMAIN m : m[i].time_diff > -300}

Passing == PassingOf(Matched)

Min(a, b) == IF a < b THEN a ELSE b

(***************************************************************************)
(* C3  In every published success snapshot trains is in ascending order of *)
(* time_diff and has at most 3 elements.                                   *)
(***************************************************************************)
C3_SortedAtMostThree ==
    PublishedSuccess =>
        /\ Len(data.trains) <= 3
        /\ \A i, j \in DOMAIN data.trains :
              i < j => data.trains[i].time_diff <= data.trains[j].time_diff

\* more than three trips matched, the feed listed a later trip first, and
\* three trains in order were published
C3_Witness ==
    /\ PublishedSuccess
    /\ Len(Matched) > 3
    /\ Matched[1].time_diff > Matched[2].time_diff
    /\ Len(data.trains) = 3
    /\ data.trains[1].time_diff < data.trains[3].time_diff

(***************************************************************************)
(* C4  Relevance window: when some matched trip has time_diff > -300,      *)
(* every published train has time_diff > -300 (a trip at exactly -300 is   *)
(* dropped) and trains holds the min(3, n) matched trips of smallest       *)
(* time_diff among the n that pass the filter.                             *)
(***************************************************************************)
C4_RelevanceWindow ==
    PublishedSuccess =>
        LET m == Matched
            passing == PassingOf(m)
        IN  passing # {} =>
            /\ \A j \in DOMAIN data.trains : data.trains[j].time_diff > -300
            /\ Len(data.trains) = Min(3, Cardinality(passing))
            /\ \E f \in [DOMAIN data.trains -> passing] :
                  /\ \A j, k \in DOMAIN data.trains : j # k => f[j] # f[k]
                  /\ \A j \in DOMAIN data.trains : data.trains[j] = m[f[j]]
                  /\ \A i \in passing \ {f[j] : j \in DOMAIN data.trains} :
                        \A j \in DOMAIN data.trains :
                            data.trains[j].time_diff <= m[i].time_diff

\* a trip at exactly -300 and a trip at -299 matched; the first was dropped,
\* the second leads the list
C4_Witness ==
    /\ PublishedSuccess
    /\ \E i \in DOMAIN Matched : Matched[i].time_diff = -300
    /\ Cardinality(Passing) >= 3
    /\ data.trains[1].time_diff = -299

(***************************************************************************)
(* C5  Fallback law: when trips matched and every one has                  *)
(* time_diff <= -300, trains is the one-element list holding the matched   *)
(* trip of smallest time_diff (the first such trip of the feed when        *)
(* several share it), never the empty list.                                *)
(***************************************************************************)
C5_Fallback ==
    PublishedSuccess =>
        LET m == Matched
        IN  (m # <<>> /\ PassingOf(m) = {}) =>
            \E i \in DOMAIN m :
                /\ \A k \in DOMAIN m : m[i].time_diff <= m[k].time_diff
                /\ \A k \in DOMAIN m : k < i => m[k].time_diff > m[i].time_diff
                /\ data.trains = <<m[i]>>

\* several departed trips, the earliest not first in the feed
C5_Witness ==
    /\ PublishedSuccess
    /\ Len(Matched) >= 3
    /\ Passing = {}
    /\ Matched[1].time_diff > Matched[2].time_diff
    /\ Len(data.trains) = 1

(***************************************************************************)
(* C6  count.  As claimed: count is the number of matched trips that pass  *)
(* the filter, so 0 in the fallback case while trains has one element.     *)
(***************************************************************************)
C6_CountIsFiltered ==
    PublishedSuccess => data.count = Cardinality(Passing)

(***************************************************************************)
(* C6 as amended: count is the length of the upcoming list before the      *)
(* truncation to 3 and after the fallback: the number of matched trips     *)
(* that pass the filter when there is one (it may exceed 3), 1 in the      *)
(* fallback case, 0 when no trip matched.                                  *)
(***************************************************************************)
C6_CountAfterFallback ==
    PublishedSuccess =>
        LET m == Matched
            passing == PassingOf(m)
        IN  data.count = IF passing # {}
                            THEN Cardinality(passing)
                            ELSE IF m # <<>> THEN 1 ELSE 0

\* the fallback case: trips matched, none passes, one train and count 1
C6_Witness ==
    /\ PublishedSuccess
    /\ Matched # <<>>
    /\ Passing = {}
    /\ Len(data.trains) = 1
    /\ data.count = 1

(***************************************************************************)
(* C7  Tagged result: every snapshot a poll cycle returns either carries   *)
(* trains, count and last_update and no error key, or carries an error     *)
(* string and no trains key; none has both or neither.                     *)
(***************************************************************************)
C7_TaggedResult ==
    data # None =>
        \/ /\ {"trains", "count", "last_update"} \subseteq DOMAIN data
           /\ ~IsError(data)
        \/ /\ DOMAIN data = {"error"}
           /\ ~IsSuccess(data)

\* a cycle whose body parsed but whose processing failed published the
\* error shape
C7_Witness ==
    /\ Published
    /\ response.status = 200
    /\ IsNone(response.body.error)
    /\ Len(TheFeed) > 1
    /\ IsError(data)

\* the response of the current cycle has a status outside 200..299
Non2xx == IsNone(response.exc) /\ (response.status < 200 \/ response.status > 299)

(***************************************************************************)
(* C8  Non-2xx status.  As claimed: a cycle whose response has a non-2xx   *)
(* status S publishes {error: "HTTP S"} and nothing else, without decoding *)
(* the body and without a second request.                                  *)
(***************************************************************************)
C8_HttpStatusError ==
    (Published /\ Non2xx) =>
        /\ data = [error |-> "HTTP " \o ToString(response.status)]
        /\ ~decoded
        /\ requests = 1

(***************************************************************************)
(* C8 as amended: the snapshot is {error: "HTTP S"} in the token/protobuf  *)
(* coordinator and {error: "API returned S"} in the basic-auth/json        *)
(* coordinator; in both it has no trains key, the body is not decoded and  *)
(* no second request is issued.                                            *)
(***************************************************************************)
C8_StatusErrorPerVariant ==
    (Published /\ Non2xx) =>
        /\ variant = "protobuf" =>
              data = [error |-> "HTTP " \o ToString(response.status)]
        /\ variant = "json" =>
              data = [error |-> "API returned " \o ToString(response.status)]
        /\ ~IsSuccess(data)
        /\ ~decoded
        /\ requests = 1

\* the json coordinator got a 500
C8_Witness ==
    /\ Published
    /\ variant = "json"
    /\ response.status = 500
    /\ data = [error |-> "API returned 500"]

\* the request of the current cycle failed, or its 200 body did not parse
FetchFailed ==
    \/ ~IsNone(response.exc)
    \/ (response.status = 200 /\ ~IsNone(response.body.error))

\* the message of that failure
FailureMsg ==
    IF ~IsNone(response.exc) THEN response.exc[1] ELSE response.body.error[1]

(***************************************************************************)
(* C9  A poll cycle never raises to its caller: a network failure, a       *)
(* timeout or an unparseable payload ends in the published snapshot        *)
(* {error: <the exception's message>}.                                     *)
(***************************************************************************)
C9_NeverRaises ==
    /\ ~raised
    /\ (Published /\ FetchFailed) => data = [error |-> FailureMsg]

\* a body that did not parse
C9_Witness ==
    /\ Published
    /\ response.status = 200
    /\ ~IsNone(response.body.error)
    /\ decoded
    /\ data.error \in DecodeMsgs(variant)

\* the trips and stop entries the loop is to skip: a trip with a malformed
\* stop entry goes, and so does a stop entry whose timestamp does not parse
IsBadStop(stu) == stu.arrival.k = "bad"

IsGoodStop(stu) == ~IsBadStop(stu)

IsBadTrip(e) == \E i \in DOMAIN e.stops : e.stops[i].arrival.k = "malformed"

IsGoodTrip(e) == ~IsBadTrip(e)

WithoutBadStops(e) == [e EXCEPT !.stops = SelectSeq(@, IsGoodStop)]

\* the feed with its bad entries removed
Cleaned(feed) ==
    LET kept == SelectSeq(feed, IsGoodTrip)
    IN  [i \in DOMAIN kept |-> WithoutBadStops(kept[i])]

HasBadEntry(feed) ==
    \E i \in DOMAIN feed :
        IsBadTrip(feed[i]) \/ \E n \in DOMAIN feed[i].stops : IsBadStop(feed[i].stops[n])

(***************************************************************************)
(* C10  Per-entry error isolation: a bad trip or stop entry in a feed that *)
(* parses is skipped alone; the cycle publishes a success snapshot whose   *)
(* trains is what the feed without the bad entry gives.                    *)
(***************************************************************************)
C10_PerEntryIsolation ==
    (Published /\ response.status = 200 /\ IsNone(response.body.error)) =>
        /\ IsSuccess(data)
        /\ data.trains =
              SuccessSnapshot(variant,
                              MatchFeed(variant, Cleaned(TheFeed), now).trains,
                              now).trains

\* what the json coordinator does keep of the claim
C10_JsonIsolation ==
    (variant = "json" /\ Published /\ response.status = 200
        /\ IsNone(response.body.error)) =>
        /\ IsSuccess(data)
        /\ data.trains =
              SuccessSnapshot(variant,
                              MatchFeed(variant, Cleaned(TheFeed), now).trains,
                              now).trains

(***************************************************************************)
(* The setup flow as a state machine.  Until the flow has created the      *)
(* entry there is no coordinator: pc = "Setup" and the configuration is    *)
(* empty.  async_create_entry makes Home Assistant set the platform up,    *)
(* which constructs the coordinator from entry.data.                       *)
(***************************************************************************)
InitFlow ==
    /\ variant \in Variants
    /\ line_id = ""
    /\ start_station = ""
    /\ end_station = ""
    /\ flow = FlowStart
    /\ pc = "Setup"
    /\ now = Epoch0
    /\ response = ExcResponse("")
    /\ data = None
    /\ requests = 0
    /\ decoded = FALSE
    /\ raised = FALSE
    /\ previous = None
    /\ sensors = {}

\* async_step_user with user_input, up to the request of the probe: the
\* credential is stored and set as unique id; configured: an entry with
\* this unique id exists already
StepUser(configured) ==
    /\ flow.step = "user"
    /\ flow.probing = ""
    /\ flow' =
        IF configured
            THEN [flow EXCEPT !.step = "abort", !.errors = "",
                              !.reason = "already_configured"]
            ELSE [flow EXCEPT !.probing = "request"]
    /\ UNCHANGED <<config, pc, now, response, data, requests, decoded, raised, previous, sensors>>

\* the probe awaits response.json() on this response
NeedsBody(v, probe) ==
    /\ IsNone(probe.exc)
    /\ IF v = "protobuf"
          THEN probe.status = 200 /\ MentionsJson(probe.content_type)
          ELSE probe.status # 401

\* the probe returned ok: async_step_user goes on to the line form, or shows
\* its own form again with the error
Verdict(v, f, ok) ==
    IF ok
        THEN [f EXCEPT !.probing = "", !.step = "line_select", !.errors = "",
                       !.valid = TRUE]
        ELSE [f EXCEPT !.probing = "", !.errors = InvalidError(v),
                       !.valid = FALSE, !.rejected = TRUE]

\* session.get of the probe resumes, with an exception or a status line;
\* the probe returns at once or is suspended again in response.json()
ProbeResponds(probe) ==
    /\ flow.probing = "request"
    /\ flow' =
        IF NeedsBody(variant, probe)
            THEN [flow EXCEPT !.probe = Some(probe), !.probing = "body"]
            ELSE Verdict(variant, [flow EXCEPT !.probe = Some(probe)],
                         Validate(variant, probe))
    /\ UNCHANGED <<config, pc, now, response, data, requests, decoded, raised, previous, sensors>>

\* response.json() of the probe resumes, with the parsed body or an exception
ProbeBody ==
    /\ flow.probing = "body"
    /\ flow' = Verdict(variant, flow, Validate(variant, flow.probe[1]))
    /\ UNCHANGED <<config, pc, now, response, data, requests, decoded, raised, previous, sensors>>

\* async_step_line_select with user_input, which goes on to
\* async_step_stop_select without user_input
StepLineSelect(line) ==
    /\ flow.step = "line_select"
    /\ line \in DOMAIN METRA_LINES
    /\ flow' =
        IF LineStops(line) = {}
            THEN [flow EXCEPT !.selected_line_id = Some(line), !.step = "abort",
                              !.errors = "", !.reason = "no_stops_found_for_line"]
            ELSE [flow EXCEPT !.selected_line_id = Some(line), !.step = "stop_select"]
    /\ UNCHANGED <<config, pc, now, response, data, requests, decoded, raised, previous, sensors>>

\* async_step_stop_select with user_input: the two names the user picked,
\* each from the stop names of the selected line
StepStopSelect(start_name, end_name) ==
    /\ flow.step = "stop_select"
    /\ LET line == flow.selected_line_id[1]
       IN  IF LineStops(line) = {}
               THEN flow' = [flow EXCEPT !.step = "abort", !.errors = "",
                                         !.reason = "no_stops_found_for_line"]
               ELSE /\ start_name \in {StationName(k) : k \in LineStops(line)}
                    /\ end_name \in {StationName(k) : k \in LineStops(line)}
                    /\ flow' = [flow EXCEPT
                            !.step = "create_entry",
                            !.entry = Some(EntryData(line, start_name, end_name))]
    /\ UNCHANGED <<config, pc, now, response, data, requests, decoded, raised, previous, sensors>>

\* every name the stop form can offer
StopNames == {StationName(k) : k \in UNION {LineStops(l) : l \in DOMAIN METRA_LINES}}

UserStep == \E configured \in BOOLEAN : StepUser(configured)

ProbeStep == \E probe \in Probes : ProbeResponds(probe)

LineSelectStep == \E line \in DOMAIN METRA_LINES : StepLineSelect(line)

StopSelectStep ==
    \E start_name \in StopNames : \E end_name \in StopNames :
        StepStopSelect(start_name, end_name)

NextFlow ==
    UserStep \/ ProbeStep \/ ProbeBody \/ LineSelectStep \/ StopSelectStep \/ SetupEntry

SpecFlow == InitFlow /\ [][NextFlow]_vars

(***************************************************************************)
(* SpecSame: the last step of the setup flow, followed by the coordinator  *)
(* it configures.  The stop form takes any two names of the line, the same *)
(* name twice included.                                                    *)
(***************************************************************************)
InitSame ==
    /\ variant \in Variants
    /\ line_id = ""
    /\ start_station = ""
    /\ end_station = ""
    /\ flow = FlowAtStopSelect(variant, "UP-W")
    /\ pc = "Setup"
    /\ now = Epoch0
    /\ response = ExcResponse("")
    /\ data = None
    /\ requests = 0
    /\ decoded = FALSE
    /\ raised = FALSE
    /\ previous = None
    /\ sensors = {}

NextSame == StopSelectStep \/ SetupEntry \/ Tick \/ Respond \/ Complete \/ Return

SpecSame == InitSame /\ [][NextSame]_vars

(***************************************************************************)
(* C11: poll lifecycle.  A cycle, the first refresh of the setup or a tick  *)
(* that left Idle, has exactly one request in                              *)
(* flight, while it waits for the status and while it waits for the body,  *)
(* and eventually reaches Published; the step into Published stores        *)
(* exactly one snapshot, tagged success or error, and the snapshot changes *)
(* in no other step; from Published the coordinator eventually is Idle     *)
(* again.  An error snapshot neither prevents the next tick (Tick is       *)
(* enabled in Idle whatever was published), nor delays it (the return to   *)
(* Idle always advances the clock by the scan interval), nor alters it     *)
(* (the next request is started with the same fresh cycle state).          *)
(***************************************************************************)
C11_Lifecycle ==
    /\ [](pc \in {"Setup", "Idle", "Fetching", "Reading", "Published"})
    /\ [](pc \in {"Fetching", "Reading"} => requests = 1)
    /\ (pc = "Fetching") ~> (pc = "Published")
    /\ (pc = "Published") ~> (pc = "Idle")
    /\ [][pc = "Fetching" =>
            \/ pc' = "Reading" /\ data' = data /\ requests' = 1
            \/ pc' = "Published"]_vars
    /\ [][pc = "Reading" => pc' = "Published"]_vars
    /\ [][pc' = "Published" =>
            /\ pc \in {"Fetching", "Reading"}
            /\ data' # None
            /\ IsSuccess(data') # IsError(data')]_vars
    /\ [][data' # data => pc \in {"Fetching", "Reading"} /\ pc' = "Published"]_vars
    /\ [][pc = "Published" =>
            pc' = "Idle" /\ now' = now + DEFAULT_SCAN_INTERVAL /\ data' = data]_vars
    /\ [](pc = "Idle" /\ now <= Epoch0 + MaxTicks * DEFAULT_SCAN_INTERVAL
            => ENABLED Tick)
    /\ [][(pc = "Setup" \/ pc = "Idle") =>
            pc' = "Fetching" /\ requests' = 1 /\ ~decoded' /\ ~raised']_vars

\* the tick after an error snapshot ran and published a success snapshot
C11_Witness ==
    /\ pc = "Published"
    /\ now = Epoch0 + DEFAULT_SCAN_INTERVAL
    /\ requests = 1
    /\ previous # None
    /\ IsError(previous)
    /\ data # None
    /\ IsSuccess(data)
    /\ Len(data.trains) > 0

(***************************************************************************)
(* C12: determinism, no hidden cross-cycle state.  The snapshot a tick     *)
(* published is the one the handler returns for that tick's response and   *)
(* now on every coordinator of the same configuration, whatever earlier    *)
(* ticks left on it: on one that __init__ has just built, on one that      *)
(* holds the snapshot published before this tick or the one published by   *)
(* it, with last_update_success set or cleared.  So two cycles with the    *)
(* same response and the same now publish the same snapshot whatever came  *)
(* before them.                                                            *)
(***************************************************************************)
Leftovers ==
    {FreshCoordinator}
    \cup {[data |-> d, last_update_success |-> b] :
            d \in {previous, data}, b \in BOOLEAN}

C12_Deterministic ==
    Published =>
        \A self \in Leftovers :
            UpdateData(self, variant, response, now).ret = Some(data)

\* a second tick that follows a success snapshot with trains and publishes
\* something else: an error snapshot
C12_Witness ==
    /\ Published
    /\ now = Epoch0 + DEFAULT_SCAN_INTERVAL
    /\ previous # None
    /\ IsSuccess(previous)
    /\ Len(previous.trains) > 0
    /\ IsError(data)

(***************************************************************************)
(* C13: an error snapshot makes every sensor unavailable.  Once a snapshot *)
(* is published, for every train sensor and whatever the scheduler's       *)
(* last_update_success flag says: the sensor is available exactly when the *)
(* flag holds and the snapshot has no error tag; when the snapshot has the *)
(* error tag or the flag is false, the state is "Unavailable" and the      *)
(* attributes are empty; and under an error snapshot the sensor does not   *)
(* show the train it showed for the success snapshot published before.     *)
(* The sensors are the three that the setup adds when the first refresh    *)
(* has published.                                                          *)
(***************************************************************************)
C13_ErrorMeansUnavailable ==
    /\ sensors = IF data = None THEN {} ELSE TrainNumbers
    /\ data # None =>
        \A n \in sensors :
            /\ \A lus \in BOOLEAN :
                /\ available(lus, data) <=> (lus /\ ~IsError(data))
                /\ (IsError(data) \/ ~lus) =>
                        /\ state(variant, n, lus, data, DateOf(now)) = "Unavailable"
                        /\ extra_state_attributes(variant, n, lus, data) = EmptyDict
            /\ (/\ IsError(data)
                /\ previous # None
                /\ IsSuccess(previous)
                /\ Len(previous.trains) >= n) =>
                    /\ state(variant, n, last_update_success, data, DateOf(now))
                            # state(variant, n, TRUE, previous, DateOf(now))
                    /\ extra_state_attributes(variant, n, last_update_success, data)
                            # extra_state_attributes(variant, n, TRUE, previous)

\* an error snapshot published after a success snapshot whose first train
\* sensor 1 displayed
C13_Witness ==
    /\ Published
    /\ sensors = TrainNumbers
    /\ IsError(data)
    /\ last_update_success
    /\ previous # None
    /\ IsSuccess(previous)
    /\ Len(previous.trains) >= 1
    /\ state(variant, 1, TRUE, previous, DateOf(now)) \notin {"Unavailable", NoTrainText(variant)}
    /\ state(variant, 1, last_update_success, data, DateOf(now)) = "Unavailable"

(***************************************************************************)
(* C14 vocabulary.                                                         *)
(***************************************************************************)
\* the body of a probe response parses in the format its content type names
Parseable(probe) ==
    \/ TypedJson(probe.content_type) /\ probe.body \in {"list", "dict", "scalar"}
    \/ probe.content_type = ProtobufType /\ probe.body = "protobuf"

Is2xx(probe) == IsNone(probe.exc) /\ probe.status \in 200..299

\* the last probe has ended: flow.valid is the verdict on flow.probe
Judged == flow.probe # None /\ flow.probing = ""

\* no entry without a probe judged valid, and none while a probe is
\* pending; after a probe judged invalid the flow shows the credential form
\* with the error and nothing was selected (the next submission may abort
\* the flow: its unique id is configured)
GateHolds ==
    /\ flow.step \in {"line_select", "stop_select", "create_entry"} =>
            Judged /\ flow.valid /\ Validate(variant, flow.probe[1])
    /\ flow.probing # "" =>
            flow.step = "user" /\ flow.selected_line_id = None /\ flow.entry = None
    /\ flow.entry # None <=> flow.step = "create_entry"
    /\ pc # "Setup" => flow.step = "create_entry"
    /\ (Judged /\ ~flow.valid) =>
            /\ flow.step \in {"user", "abort"}
            /\ flow.step = "user" => flow.errors = InvalidError(variant)
            /\ flow.step = "abort" => flow.reason = "already_configured"
            /\ flow.selected_line_id = None
            /\ flow.entry = None

(***************************************************************************)
(* C14 as stated: the setup gate holds, and the probe judges HTTP 401      *)
(* invalid and every 2xx response with a parseable body valid.             *)
(***************************************************************************)
C14_SetupGate ==
    /\ GateHolds
    /\ Judged =>
            /\ (IsNone(flow.probe[1].exc) /\ flow.probe[1].status = 401) => ~flow.valid
            /\ (Is2xx(flow.probe[1]) /\ Parseable(flow.probe[1])) => flow.valid

(***************************************************************************)
(* C14 amended: the setup gate holds; the probe judges HTTP 401 invalid;   *)
(* the token probe judges valid exactly the responses with status 200      *)
(* whose Content-Type header either does not contain "application/json"    *)
(* or, lower-cased, starts with a JSON media type (application/json or     *)
(* application/...+json) while the body parses to a dict or a list; the    *)
(* basic-auth probe judges valid exactly the responses with a status other *)
(* than 401 whose header, lower-cased, starts with a JSON media type and   *)
(* whose body parses to a list.                                            *)
(***************************************************************************)
C14_GateAndProbe ==
    /\ GateHolds
    /\ Judged =>
          LET p == flow.probe[1]
          IN  /\ (IsNone(p.exc) /\ p.status = 401) => ~flow.valid
              /\ variant = "protobuf" =>
                    (flow.valid <=>
                        /\ IsNone(p.exc)
                        /\ p.status = 200
                        /\ MentionsJson(p.content_type) =>
                                TypedJson(p.content_type) /\ p.body \in {"dict", "list"})
              /\ variant = "json" =>
                    (flow.valid <=>
                        /\ IsNone(p.exc)
                        /\ p.status # 401
                        /\ TypedJson(p.content_type)
                        /\ p.body = "list")

\* a flow whose first probe was judged invalid and that created the entry
\* after a later probe was judged valid, on a list body sent as
\* "application/x+json; alt=application/json"; the setup of the entry has
\* begun
C14_Witness ==
    /\ flow.step = "create_entry"
    /\ flow.entry # None
    /\ flow.rejected
    /\ flow.valid
    /\ flow.probe[1].content_type = XJsonAltJson
    /\ flow.probe[1].body = "list"
    /\ pc = "Fetching"

(***************************************************************************)
(* C15 vocabulary.                                                         *)
(***************************************************************************)
\* the positions of e's stop entries for stop_id with a usable arrival
UsablePositions(e, stop_id) ==
    {i \in DOMAIN e.stops :
        e.stops[i].stop_id = stop_id /\ e.stops[i].arrival.k = "time"}

\* the timestamp of the last of them
LastUsable(e, stop_id) ==
    LET last == CHOOSE i \in UsablePositions(e, stop_id) :
                    \A k \in UsablePositions(e, stop_id) : k <= i
    IN  e.stops[last].arrival.t

(***************************************************************************)
(* C15: no check of stop order or direction.  In a published success       *)
(* snapshot every trip of the configured line with usable arrivals at both *)
(* configured stops (and no malformed entry, and a start not more than 300 *)
(* s ago) is a published train, whether its end arrival is before or after *)
(* its start arrival; the train's start and end are the timestamps of the  *)
(* last stop entry with a usable arrival for the start stop and for the    *)
(* end stop.                                                               *)
(***************************************************************************)
C15_NoDirectionCheck ==
    PublishedSuccess =>
        \A i \in DOMAIN TheFeed :
            ( /\ TheFeed[i].kind = "trip"
              /\ TheFeed[i].route_id = line_id
              /\ start_station # end_station
              /\ HasBoth(TheFeed[i])
              /\ IsGoodTrip(TheFeed[i])
              /\ LastUsable(TheFeed[i], start_station) - now > -300 ) =>
                \E j \in DOMAIN data.trains :
                    /\ data.trains[j].trip_id = TripIdOf(variant, TheFeed[i].trip_id)
                    /\ data.trains[j].start_full = LastUsable(TheFeed[i], start_station)
                    /\ data.trains[j].end_full = LastUsable(TheFeed[i], end_station)
                    /\ data.trains[j].start_time = StrfHM(data.trains[j].start_full)
                    /\ data.trains[j].end_time = StrfHM(data.trains[j].end_full)

\* a published train that arrives at the end stop before the start stop,
\* from a trip that lists the start stop twice: the second entry counts,
\* although it is the earlier time
C15_Witness ==
    /\ PublishedSuccess
    /\ \E i \in DOMAIN TheFeed : \E j \in DOMAIN data.trains :
          /\ TheFeed[i].kind = "trip"
          /\ Len(TheFeed[i].stops) = 3
          /\ TheFeed[i].stops[1] = Stop(start_station, Time(Epoch0 + 660))
          /\ TheFeed[i].stops[2] = Stop(start_station, Time(Epoch0 + 600))
          /\ TheFeed[i].stops[3] = Stop(end_station, Time(Epoch0 + 300))
          /\ data.trains[j].trip_id = TripIdOf(variant, TheFeed[i].trip_id)
          /\ data.trains[j].start_full = Epoch0 + 600
          /\ data.trains[j].end_full = Epoch0 + 300
          /\ data.trains[j].start_full > data.trains[j].end_full

(***************************************************************************)
(* C16: the same station as start and as end.  The stop form accepts the   *)
(* same name twice; and once the coordinator is configured with one stop   *)
(* id as start and as end, the matcher finds no trip in any decoded feed   *)
(* and every success snapshot, at every tick, has trains = <<>> and        *)
(* count = 0.                                                              *)
(***************************************************************************)
C16_SameStopNoTrains ==
    /\ flow.step = "stop_select" =>
            \A k \in LineStops(flow.selected_line_id[1]) :
                ENABLED StepStopSelect(StationName(k), StationName(k))
    /\ (pc # "Setup" /\ start_station = end_station) =>
            /\ pc = "Reading" =>
                    MatchFeed(variant, TheFeed, now).trains = <<>>
            /\ (data # None /\ IsSuccess(data)) =>
                    data.trains = <<>> /\ data.count = 0

\* the flow created an entry with the start stop as end stop, and the second
\* tick polled a trip of the line with a usable arrival there: no trains
C16_Witness ==
    /\ flow.step = "create_entry"
    /\ flow.entry[1].start_station = flow.entry[1].end_station
    /\ start_station = end_station
    /\ Published
    /\ now = Epoch0 + DEFAULT_SCAN_INTERVAL
    /\ IsSuccess(data)
    /\ data.trains = <<>>
    /\ data.count = 0
    /\ \E i \in DOMAIN TheFeed :
          /\ TheFeed[i].kind = "trip"
          /\ TheFeed[i].route_id = line_id
          /\ UsableAt(TheFeed[i], start_station)

====
